---- MODULE Spec2Model ----
(***************************************************************************)
(* Vietnam population forecasting: the PopulationForecaster object of      *)
(* population_forecasting_pipeline.py and the script simple_forecasting.py *)
(* as a state machine.  The CSV file is the input; every public method of  *)
(* PopulationForecaster is one action, callable in any order; the script   *)
(* simple_forecasting.main is one action of its own, and so is a call of   *)
(* filter_data_by_year_range of interactive_population_dashboard.py.       *)
(*                                                                         *)
(* A float of the code is a fixed-point number <<m, 1>>, which stands for   *)
(* m / Scale; <<0, 0>> is NaN and <<-1, 0>> is -inf.  A cell of the CSV is *)
(* such a number too, NaN when it is empty.                                *)
(***************************************************************************)
EXTENDS Integers, Sequences, FiniteSets, TLC

VARIABLES
    program,            \* the script this run executes
    csv,                \* rows of vietnam_population_data.csv (Entity == Vietnam)
    sklearn,            \* what the seeded library regressors extrapolate to
    data,               \* self.data        (<<>> is None, <<df>> a DataFrame)
    train_data,         \* self.train_data
    test_data,          \* self.test_data
    models,             \* self.models
    predictions,        \* self.predictions
    evaluation_results, \* self.evaluation_results
    best_models,        \* best_models of generate_analysis_report (<<>> before it ran)
    printed,            \* the key-finding lines the last report printed
    raised,             \* the exception the last PopulationForecaster call raised
    simple,             \* what simple_forecasting.main computed (<<>> before it ran)
    dashboard           \* a call of filter_data_by_year_range of the dashboard:
                        \* its arguments and what it returned (<<>> when no call)

vars == <<program, csv, sklearn, data, train_data, test_data, models, predictions,
          evaluation_results, best_models, printed, raised, simple, dashboard>>

----------------------------------------------------------------------------
(* Bounds of the model *)

\* historical years in the largest CSV (Boundary - NumHist + 1 .. Boundary)
NumHist == 6
\* projection years in the largest CSV (Boundary + 1 .. Boundary + NumProj)
NumProj == 2
\* cells of the CSV that depart from the published pattern
\* (estimates up to the boundary, medium variant after it)
MaxDeviations == 1
\* the resolution of a float: 1 / Scale
Scale == 1000

(* Program constants *)

\* the split year of both pipelines
Boundary == 2023
\* the first year of the test split
ProjectionStart == 2024
\* n_neighbors of KNeighborsRegressor
KNeighbors == 5

FirstYear == Boundary - NumHist + 1
LastYear  == Boundary + NumProj

----------------------------------------------------------------------------
(* Floating point *)

Abs(i) == IF i < 0 THEN 0 - i ELSE i

NaNF   == <<0, 0>>
NegInf == <<0 - 1, 0>>

IsNaNF(q) == q = NaNF

\* the float of an integer
Float(i) == <<i * Scale, 1>>

FAdd(p, q) == <<p[1] + q[1], 1>>
FSub(p, q) == <<p[1] - q[1], 1>>
Sign(i) == IF i < 0 THEN 0 - 1 ELSE 1

\* a * b / Scale and a * Scale / b on magnitudes, rounded down, computed in
\* two parts so that the intermediate products stay small
MulMag(a, b) == (a \div Scale) * b + ((a % Scale) * b) \div Scale
DivMag(a, b) == (a \div b) * Scale + ((a % b) * Scale) \div b

FMul(p, q) == <<Sign(p[1]) * Sign(q[1]) * MulMag(Abs(p[1]), Abs(q[1])), 1>>
FDiv(p, q) == <<Sign(p[1]) * Sign(q[1]) * DivMag(Abs(p[1]), Abs(q[1])), 1>>
FAbs(p)    == <<Abs(p[1]), 1>>

\* the largest r in lo..hi with r * r <= n
RECURSIVE ISqrt(_, _, _)
ISqrt(n, lo, hi) ==
    IF lo >= hi THEN lo
    ELSE LET mid == (lo + hi + 1) \div 2
         IN  IF mid * mid <= n THEN ISqrt(n, mid, hi) ELSE ISqrt(n, lo, mid - 1)

FSqrt(p) == <<ISqrt(p[1] * Scale, 0, 46340), 1>>

\* Python's float comparison p > q: False when either side is NaN
FGreater(p, q) ==
    IF IsNaNF(p) \/ IsNaNF(q) THEN FALSE
    ELSE IF q = NegInf THEN p # NegInf
    ELSE IF p = NegInf THEN FALSE
    ELSE p[1] > q[1]

RECURSIVE FSum(_)
FSum(s) == IF s = <<>> THEN Float(0) ELSE FAdd(s[1], FSum(Tail(s)))

FMean(s) == FDiv(FSum(s), Float(Len(s)))

----------------------------------------------------------------------------
(* Sequences as numpy arrays *)

\* a[mask]: the entries of a at the positions where mask is True, in order
RECURSIVE BoolIndex(_, _)
BoolIndex(a, mask) ==
    IF a = <<>> THEN <<>>
    ELSE IF mask[1] THEN <<a[1]>> \o BoolIndex(Tail(a), Tail(mask))
    ELSE BoolIndex(Tail(a), Tail(mask))

Range(s) == {s[i] : i \in DOMAIN s}

----------------------------------------------------------------------------
(* The CSV file *)

\* self.age_groups, in the order of the dict literal
AgeGroupKeys == <<"elderly_65+", "working_15-64", "children_0-14">>
AgeGroups    == Range(AgeGroupKeys)

\* the order in which train_all_models fills self.models
ModelNames == <<"random_forest", "knn", "polynomial">>

Columns == {"estimates", "medium"}

\* The numbers the file would hold in a cell: a rising, a flat and a falling
\* series; the medium variant departs from the estimate in every odd year.
EstValue(g, y) ==
    CASE g = "elderly_65+"   -> 10 + 2 * (y - FirstYear)
      [] g = "working_15-64" -> 20
      [] g = "children_0-14" -> 30 - (y - FirstYear)

MedValue(g, y) == EstValue(g, y) + (y % 2)

\* the published pattern: estimates up to the boundary, medium variant after
Published(col, y) ==
    IF col = "estimates" THEN y <= Boundary ELSE y >= ProjectionStart

\* the cells that may depart from it: those of the rows around the split
CellsOf(first, last) ==
    {c \in (first .. last) \X AgeGroups \X Columns : c[1] >= Boundary}

RECURSIVE SubsetsUpTo(_, _)
SubsetsUpTo(S, k) ==
    IF k = 0 THEN {{}}
    ELSE LET P == SubsetsUpTo(S, k - 1)
         IN  P \cup {p \cup {c} : p \in P, c \in S}

Cell(col, g, y, D) ==
    IF Published(col, y) # (<<y, g, col>> \in D)
    THEN Float(IF col = "estimates" THEN EstValue(g, y) ELSE MedValue(g, y))
    ELSE NaNF

\* the rows of the file for the years first..last, the cells in D departing
\* from the published pattern; D holds cells of one age group in one year
MakeCsv(first, last, D) ==
    [i \in 1 .. (last - first + 1) |->
        LET y == first + i - 1
        IN  [Year      |-> y,
             estimates |-> [g \in AgeGroups |-> Cell("estimates", g, y, D)],
             medium    |-> [g \in AgeGroups |-> Cell("medium", g, y, D)]]]

\* the first years of the files: histories of 0 and 1 year, and of
\* n_neighbors - 1 years and more, the lengths at which the fits and the
\* predictions of the three variants change their outcome
HistoryStarts ==
    {y \in FirstYear .. ProjectionStart :
        Boundary - y + 1 <= 1 \/ Boundary - y + 1 >= KNeighbors - 1}

CsvFiles ==
    {MakeCsv(first, last, D) :
        <<first, last, D>> \in
            {t \in HistoryStarts \X (Boundary .. LastYear)
                    \X SubsetsUpTo(CellsOf(FirstYear, LastYear), MaxDeviations) :
                /\ t[1] <= t[2]
                /\ \A c \in t[3] : c[1] \in t[1] .. t[2]
                /\ \A c, d \in t[3] : c[1] = d[1] /\ c[2] = d[2]}}

----------------------------------------------------------------------------
(* pandas *)

isnan(v) == IsNaNF(v)

\* fillna with the two columns taken the other way round
fillna_medium_first(v, other) == IF other # NaNF THEN other ELSE v

\* Series.fillna(other): the other column's value where this one is NaN
fillna(v, other) == IF isnan(v) THEN other ELSE v

Some(x)   == <<x>>
None      == <<>>
IsNone(o) == o = <<>>
Get(o)    == o[1]

----------------------------------------------------------------------------
(* scikit-learn, as far as the pipelines use it.  An estimator call either *)
(* returns a value or raises: [exc |-> "None", value |-> v] or             *)
(* [exc |-> "ValueError"].                                                 *)

Ok(v)      == [exc |-> "None", value |-> v]
Raise(e)   == [exc |-> e]
IsOk(r)    == r.exc = "None"

\* what RandomForestRegressor(random_state=42) and LinearRegression on cubic
\* features return right of the training years is library arithmetic the
\* model does not compute: it is fixed per run and drawn from these
RFLeafChoices == {1, 2}
PolyTrends    == {0, 1}

\* check_array: every fit, transform, predict and metric refuses an empty array
RandomForest_fit(X, y) ==
    IF Len(X) = 0 THEN Raise("ValueError")
    ELSE Ok([X |-> X, y |-> y])

\* a forest built without a seed: its trees depend on the state of the global
\* generator, which the earlier calls of the process have moved on
RandomForest_predict_unseeded(rf, X) ==
    IF Len(X) = 0 THEN Raise("ValueError")
    ELSE LET n == Len(rf.y)
             l == IF predictions = <<>> THEN sklearn.leaf ELSE 3 - sklearn.leaf
             k == IF l > n THEN n ELSE l
         IN  Ok([i \in DOMAIN X |-> rf.y[n - k + 1]])

\* Right of every training year all trees answer from their rightmost leaf:
\* one of the latest training targets.
RandomForest_predict(rf, X) ==
    IF Len(X) = 0 THEN Raise("ValueError")
    ELSE LET n == Len(rf.y)
             k == IF sklearn.leaf > n THEN n ELSE sklearn.leaf
         IN  Ok([i \in DOMAIN X |-> rf.y[n - k + 1]])

\* StandardScaler: mean_ and scale_ of the training years; scale_ is
\* sqrt(var_), or 1 when var_ is 0
StandardScaler_fit(X) ==
    IF Len(X) = 0 THEN Raise("ValueError")
    ELSE LET Xf   == [i \in DOMAIN X |-> Float(X[i])]
             mean == FMean(Xf)
             var  == FMean([i \in DOMAIN X |->
                        FMul(FSub(Xf[i], mean), FSub(Xf[i], mean))])
         IN  Ok([mean  |-> mean,
                 scale |-> IF var = Float(0) THEN Float(1) ELSE FSqrt(var)])

\* (x - mean_) / scale_
StandardScaler_transform(scaler, X) ==
    IF Len(X) = 0 THEN Raise("ValueError")
    ELSE Ok([i \in DOMAIN X |->
                FDiv(FSub(Float(X[i]), scaler.mean), scaler.scale)])

KNeighbors_fit(Z, y, weights) ==
    IF Len(Z) = 0 THEN Raise("ValueError")
    ELSE Ok([Z |-> Z, y |-> y, n_neighbors |-> KNeighbors, weights |-> weights])

\* the distance of every training point to z
Distances(knn, z) == [i \in DOMAIN knn.Z |-> FAbs(FSub(knn.Z[i], z))]

\* training point j comes before training point i in the order of kneighbors:
\* by distance, the first of equals first
Closer(dist, j, i) ==
    dist[j][1] < dist[i][1] \/ (dist[j] = dist[i] /\ j < i)

\* the order of the neighbours reversed: the k farthest training points
KNearest_farthest(dist, idx, k) ==
    {i \in idx : Cardinality({j \in idx : Closer(dist, i, j)}) < k}

\* kneighbors: the indices of the k training points nearest to the query
KNearest(dist, idx, k) ==
    {i \in idx : Cardinality({j \in idx : Closer(dist, j, i)}) < k}

\* the weight of every chosen neighbour: 1 under 'uniform'; under 'distance'
\* 1/d, and when some neighbour is at distance 0 only those count
KNeighbors_weights(weights, dist, nb) ==
    LET zero == {i \in nb : dist[i] = Float(0)}
    IN  [i \in nb |->
            IF weights = "uniform" THEN Float(1)
            ELSE IF zero # {} THEN (IF i \in zero THEN Float(1) ELSE Float(0))
            ELSE FDiv(Float(1), dist[i])]

KNeighbors_predictOne(knn, z) ==
    LET dist == Distances(knn, z)
        nb   == KNearest(dist, DOMAIN knn.Z, knn.n_neighbors)
        w    == KNeighbors_weights(knn.weights, dist, nb)
        ord  == SelectSeq([i \in DOMAIN knn.Z |-> i], LAMBDA i : i \in nb)
    IN  FDiv(FSum([j \in DOMAIN ord |-> FMul(w[ord[j]], knn.y[ord[j]])]),
             FSum([j \in DOMAIN ord |-> w[ord[j]]]))

\* kneighbors raises when the training set has fewer than n_neighbors points
KNeighbors_predict(knn, Z) ==
    IF Len(Z) = 0 THEN Raise("ValueError")
    ELSE IF Len(knn.Z) < knn.n_neighbors THEN Raise("ValueError")
    ELSE Ok([i \in DOMAIN Z |-> KNeighbors_predictOne(knn, Z[i])])

\* PolynomialFeatures(degree=3) + LinearRegression
Polynomial_fit(X, y) ==
    IF Len(X) = 0 THEN Raise("ValueError")
    ELSE Ok([X |-> X, y |-> y])

\* a global trend continued from the last training year
Polynomial_predict(poly, X) ==
    IF Len(X) = 0 THEN Raise("ValueError")
    ELSE LET n == Len(poly.y)
         IN  Ok([i \in DOMAIN X |->
                    FAdd(poly.y[n],
                         Float(sklearn.trend * (X[i] - poly.X[n])))])

\* sum of squared differences
SumSq(a, b) == FSum([i \in DOMAIN a |-> FMul(FSub(a[i], b[i]), FSub(a[i], b[i]))])

mean_squared_error(y_true, y_pred) ==
    IF Len(y_true) = 0 THEN Raise("ValueError")
    ELSE Ok(FDiv(SumSq(y_true, y_pred), Float(Len(y_true))))

mean_absolute_error(y_true, y_pred) ==
    IF Len(y_true) = 0 THEN Raise("ValueError")
    ELSE Ok(FMean([i \in DOMAIN y_true |-> FAbs(FSub(y_true[i], y_pred[i]))]))

\* NaN below two samples; with a constant y_true 1.0 for a perfect
\* prediction and 0.0 otherwise (force_finite)
r2_score(y_true, y_pred) ==
    IF Len(y_true) = 0 THEN Raise("ValueError")
    ELSE IF Len(y_true) < 2 THEN Ok(NaNF)
    ELSE LET mean   == FMean(y_true)
             ss_res == SumSq(y_true, y_pred)
             ss_tot == SumSq(y_true, [i \in DOMAIN y_true |-> mean])
         IN  IF ss_tot = Float(0)
             THEN Ok(IF ss_res = Float(0) THEN Float(1) ELSE Float(0))
             ELSE Ok(FSub(Float(1), FDiv(ss_res, ss_tot)))

----------------------------------------------------------------------------
(* PopulationForecaster *)

\* the methods below are calls on the object the pipeline script constructs
IsForecaster == program = "population_forecasting_pipeline"

\* lines 82-88: the estimates column of every age group filled from medium
FillEstimates(df) ==
    [i \in DOMAIN df |->
        [df[i] EXCEPT !.estimates =
            [g \in AgeGroups |-> fillna(df[i].estimates[g], df[i].medium[g])]]]

\* the boundary year left out of the training set
IsHistorical_exclusive(row) == row.Year < Boundary

IsHistorical(row) == row.Year <= Boundary
IsProjection(row) == row.Year >= ProjectionStart

TrainSplit(df) == SelectSeq(df, IsHistorical)
TestSplit(df)  == SelectSeq(df, IsProjection)

\* prepare_features: X is the Year column, y_dict[g] the estimates column of g
prepare_features(df) ==
    [X      |-> [i \in DOMAIN df |-> df[i].Year],
     y_dict |-> [g \in AgeGroups |-> [i \in DOMAIN df |-> df[i].estimates[g]]]]

\* ~np.isnan(y)
NotNaNMask(y) == [i \in DOMAIN y |-> ~isnan(y[i])]

load_and_preprocess_data ==
    LET filled == FillEstimates(csv)
    IN  /\ IsForecaster
        /\ data' = Some(filled)
        /\ train_data' = Some(TrainSplit(filled))
        /\ test_data' = Some(TestSplit(filled))
        /\ raised' = "None"
        /\ UNCHANGED <<dashboard, program, csv, sklearn, models, predictions, evaluation_results,
                       best_models, printed, simple>>

\* dict[key] = value
Put(d, key, value) ==
    [k \in DOMAIN d \cup {key} |-> IF k = key THEN value ELSE d[k]]

\* dict.keys() of self.models, self.predictions and self.evaluation_results:
\* insertion order, which train_all_models fixes
Keys(d) == SelectSeq(ModelNames, LAMBDA m : m \in DOMAIN d)

\* X_clean, y_clean of the three train_* methods
CleanTraining(X, y) ==
    LET mask == NotNaNMask(y)
    IN  [X |-> BoolIndex(X, mask), y |-> BoolIndex(y, mask)]

\* the first exception a sequence of results holds, "None" when there is none
RECURSIVE FirstExc(_)
FirstExc(rs) ==
    IF rs = <<>> THEN "None"
    ELSE IF ~IsOk(rs[1]) THEN rs[1].exc
    ELSE FirstExc(Tail(rs))

\* a loop over self.age_groups that builds one dict entry per age group and
\* stops at the first exception
PerGroup(fits) ==
    LET rs == [i \in DOMAIN AgeGroupKeys |-> fits[AgeGroupKeys[i]]]
        e  == FirstExc(rs)
    IN  IF e = "None" THEN Ok([g \in AgeGroups |-> fits[g].value]) ELSE Raise(e)

\* one mask for all age groups: a year is kept only where no age group has NaN
train_random_forest_shared_mask(X_train, y_train_dict) ==
    LET mask == [i \in DOMAIN X_train |->
                    \A g \in AgeGroups : ~isnan(y_train_dict[g][i])]
        fit(g) == RandomForest_fit(BoolIndex(X_train, mask),
                                   BoolIndex(y_train_dict[g], mask))
    IN  PerGroup([g \in AgeGroups |-> fit(g)])

train_random_forest(X_train, y_train_dict) ==
    LET fit(g) ==
            LET c == CleanTraining(X_train, y_train_dict[g])
            IN  RandomForest_fit(c.X, c.y)
    IN  PerGroup([g \in AgeGroups |-> fit(g)])

train_knn(X_train, y_train_dict) ==
    LET fit(g) ==
            LET c      == CleanTraining(X_train, y_train_dict[g])
                scaler == StandardScaler_fit(c.X)
            IN  IF ~IsOk(scaler) THEN scaler
                ELSE LET Z   == StandardScaler_transform(scaler.value, c.X)
                         knn == KNeighbors_fit(Z.value, c.y, "distance")
                     IN  Ok([model |-> knn.value, scaler |-> scaler.value])
    IN  PerGroup([g \in AgeGroups |-> fit(g)])

train_polynomial_regression(X_train, y_train_dict) ==
    LET fit(g) ==
            LET c == CleanTraining(X_train, y_train_dict[g])
            IN  Polynomial_fit(c.X, c.y)
    IN  PerGroup([g \in AgeGroups |-> fit(g)])

\* the state of self.models and the exception after the three assignments of
\* train_all_models, each of which is reached only when the one before returned
TrainAll(train) ==
    LET f    == prepare_features(train)
        rf   == train_random_forest(f.X, f.y_dict)
        knn  == train_knn(f.X, f.y_dict)
        poly == train_polynomial_regression(f.X, f.y_dict)
        m1   == Put(models, "random_forest", rf.value)
        m2   == Put(m1, "knn", knn.value)
        m3   == Put(m2, "polynomial", poly.value)
    IN  IF ~IsOk(rf) THEN [models |-> models, exc |-> rf.exc]
        ELSE IF ~IsOk(knn) THEN [models |-> m1, exc |-> knn.exc]
        ELSE IF ~IsOk(poly) THEN [models |-> m2, exc |-> poly.exc]
        ELSE [models |-> m3, exc |-> "None"]

train_all_models ==
    /\ IsForecaster
    /\ IF IsNone(train_data)
       THEN /\ raised' = "TypeError"
            /\ UNCHANGED models
       ELSE LET r == TrainAll(Get(train_data))
            IN  /\ models' = r.models
                /\ raised' = r.exc
    /\ UNCHANGED <<dashboard, program, csv, sklearn, data, train_data, test_data, predictions,
                   evaluation_results, best_models, printed, simple>>

\* the body of the inner loop of make_predictions for one model and age group
PredictOne(model_name, model, X_test) ==
    CASE model_name = "random_forest" -> RandomForest_predict(model, X_test)
      [] model_name = "knn" ->
            LET Z == StandardScaler_transform(model.scaler, X_test)
            IN  IF ~IsOk(Z) THEN Z ELSE KNeighbors_predict(model.model, Z.value)
      [] model_name = "polynomial" -> Polynomial_predict(model, X_test)

\* The two loops of make_predictions from position (mi, gi) on: self.predictions
\* is written entry by entry, so what was stored before an exception stays.
RECURSIVE PredictLoop(_, _, _, _)
PredictLoop(preds, mi, gi, X_test) ==
    LET names == Keys(models)
    IN  IF mi > Len(names) THEN [predictions |-> preds, exc |-> "None"]
        ELSE LET name  == names[mi]
                 start == IF gi = 1 THEN Put(preds, name, <<>>) ELSE preds
             IN  IF gi > Len(AgeGroupKeys)
                 THEN PredictLoop(start, mi + 1, 1, X_test)
                 ELSE LET g == AgeGroupKeys[gi]
                          r == PredictOne(name, models[name][g], X_test)
                      IN  IF ~IsOk(r) THEN [predictions |-> start, exc |-> r.exc]
                          ELSE PredictLoop(
                                   Put(start, name, Put(start[name], g, r.value)),
                                   mi, gi + 1, X_test)

make_predictions ==
    /\ IsForecaster
    /\ IF IsNone(test_data)
       THEN /\ raised' = "TypeError"
            /\ UNCHANGED predictions
       ELSE LET f == prepare_features(Get(test_data))
                r == PredictLoop(predictions, 1, 1, f.X)
            IN  /\ predictions' = r.predictions
                /\ raised' = r.exc
    /\ UNCHANGED <<dashboard, program, csv, sklearn, data, train_data, test_data, models,
                   evaluation_results, best_models, printed, simple>>

\* predictions joined to the kept ground truth by position: the first
\* len(y_true_clean) of them
EvaluateOne_by_position(model_name, g, y_test_dict) ==
    IF g \notin DOMAIN predictions[model_name] THEN Raise("KeyError")
    ELSE LET y_true == y_test_dict[g]
             y_pred == predictions[model_name][g]
             mask   == NotNaNMask(y_true)
         IN  IF Len(y_pred) # Len(mask) THEN Raise("IndexError")
             ELSE LET y_true_clean == BoolIndex(y_true, mask)
                      y_pred_clean == SubSeq(y_pred, 1, Len(y_true_clean))
                      mse == mean_squared_error(y_true_clean, y_pred_clean)
                      mae == mean_absolute_error(y_true_clean, y_pred_clean)
                      r2  == r2_score(y_true_clean, y_pred_clean)
                  IN  IF ~IsOk(mse) THEN mse
                      ELSE Ok([RMSE |-> FSqrt(mse.value),
                               MAE  |-> mae.value,
                               R2   |-> r2.value])

\* the body of the inner loop of evaluate_models for one model and age group
EvaluateOne(model_name, g, y_test_dict) ==
    IF g \notin DOMAIN predictions[model_name] THEN Raise("KeyError")
    ELSE LET y_true == y_test_dict[g]
             y_pred == predictions[model_name][g]
             mask   == NotNaNMask(y_true)
         IN  IF Len(y_pred) # Len(mask) THEN Raise("IndexError")
             ELSE LET y_true_clean == BoolIndex(y_true, mask)
                      y_pred_clean == BoolIndex(y_pred, mask)
                      mse == mean_squared_error(y_true_clean, y_pred_clean)
                      mae == mean_absolute_error(y_true_clean, y_pred_clean)
                      r2  == r2_score(y_true_clean, y_pred_clean)
                  IN  IF ~IsOk(mse) THEN mse
                      ELSE Ok([RMSE |-> FSqrt(mse.value),
                               MAE  |-> mae.value,
                               R2   |-> r2.value])

\* results of evaluate_models, or the first exception of its two loops
EvaluateAll(test) ==
    LET f     == prepare_features(test)
        names == Keys(predictions)
        rs    == [i \in 1 .. (Len(names) * Len(AgeGroupKeys)) |->
                    EvaluateOne(names[((i - 1) \div Len(AgeGroupKeys)) + 1],
                                AgeGroupKeys[((i - 1) % Len(AgeGroupKeys)) + 1],
                                f.y_dict)]
        e     == FirstExc(rs)
    IN  IF e # "None" THEN Raise(e)
        ELSE Ok([m \in DOMAIN predictions |->
                    [g \in AgeGroups |-> EvaluateOne(m, g, f.y_dict).value]])

evaluate_models ==
    /\ IsForecaster
    /\ IF IsNone(test_data)
       THEN /\ raised' = "TypeError"
            /\ UNCHANGED evaluation_results
       ELSE LET r == EvaluateAll(Get(test_data))
            IN  /\ raised' = r.exc
                /\ evaluation_results' =
                       IF IsOk(r) THEN r.value ELSE evaluation_results
    /\ UNCHANGED <<dashboard, program, csv, sklearn, data, train_data, test_data, models,
                   predictions, best_models, printed, simple>>

\* the comparison taken as r2 >= best_r2: the last of equals wins
RECURSIVE BestLoop_last_of_equals(_, _, _, _)
BestLoop_last_of_equals(g, i, best_model, best_r2) ==
    LET names == Keys(evaluation_results)
    IN  IF i > Len(names) THEN <<best_model, best_r2>>
        ELSE LET r2 == evaluation_results[names[i]][g].R2
             IN  IF FGreater(r2, best_r2) \/ r2 = best_r2
                 THEN BestLoop_last_of_equals(g, i + 1, names[i], r2)
                 ELSE BestLoop_last_of_equals(g, i + 1, best_model, best_r2)

\* the inner loop of lines 454-461 from position i on: the running best
RECURSIVE BestLoop(_, _, _, _)
BestLoop(g, i, best_model, best_r2) ==
    LET names == Keys(evaluation_results)
    IN  IF i > Len(names) THEN <<best_model, best_r2>>
        ELSE LET r2 == evaluation_results[names[i]][g].R2
             IN  IF FGreater(r2, best_r2)
                 THEN BestLoop(g, i + 1, names[i], r2)
                 ELSE BestLoop(g, i + 1, best_model, best_r2)

\* best_models of generate_analysis_report
BestModels == [g \in AgeGroups |-> BestLoop(g, 1, "None", NegInf)]

\* the loop of lines 471-472: model.replace raises on None
RECURSIVE PrintLoop(_, _, _)
PrintLoop(best, i, lines) ==
    IF i > Len(AgeGroupKeys) THEN [printed |-> lines, exc |-> "None"]
    ELSE LET g == AgeGroupKeys[i]
         IN  IF best[g][1] = "None"
             THEN [printed |-> lines, exc |-> "AttributeError"]
             ELSE PrintLoop(best, i + 1,
                            Append(lines, <<g, best[g][1], best[g][2]>>))

generate_analysis_report ==
    /\ IsForecaster
    /\ IF IsNone(train_data)
       THEN /\ raised' = "TypeError"
            /\ best_models' = None
            /\ printed' = <<>>
       ELSE LET r == PrintLoop(BestModels, 1, <<>>)
            IN  /\ best_models' = Some(BestModels)
                /\ printed' = r.printed
                /\ raised' = r.exc
    /\ UNCHANGED <<dashboard, program, csv, sklearn, data, train_data, test_data, models,
                   predictions, evaluation_results, simple>>

----------------------------------------------------------------------------
(* simple_forecasting.main.  Its age groups 'elderly', 'working', 'children' *)
(* read the same CSV columns as the three of PopulationForecaster and carry  *)
(* the same keys here.                                                       *)

\* y_test read from the filled estimates columns, as y_train is
MediumColumn_resolved(df, g) == [i \in DOMAIN df |-> df[i].estimates[g]]

\* y_test of lines 56-60: the medium column of the test rows
MediumColumn(df, g) == [i \in DOMAIN df |-> df[i].medium[g]]

\* lines 69-113 for one age group: the masks, the three fits and predictions
SimpleGroup(X_train, y_train, X_test, y_test) ==
    LET c            == CleanTraining(X_train, y_train)
        mask_test    == NotNaNMask(y_test)
        X_test_clean == BoolIndex(X_test, mask_test)
        y_test_clean == BoolIndex(y_test, mask_test)
        rf           == RandomForest_fit(c.X, c.y)
    IN  IF ~IsOk(rf) THEN rf
        ELSE
        LET scaler == StandardScaler_fit(c.X).value
            knn    == KNeighbors_fit(StandardScaler_transform(scaler, c.X).value,
                                     c.y, "uniform").value
            poly   == Polynomial_fit(c.X, c.y).value
            rf_pred == RandomForest_predict(rf.value, X_test_clean)
        IN  IF ~IsOk(rf_pred) THEN rf_pred
            ELSE
            LET knn_pred == KNeighbors_predict(knn,
                                StandardScaler_transform(scaler, X_test_clean).value)
                poly_pred == Polynomial_predict(poly, X_test_clean)
            IN  IF ~IsOk(knn_pred) THEN knn_pred
                ELSE Ok([models |-> [rf |-> rf.value, knn |-> knn, poly |-> poly,
                                     scaler |-> scaler],
                         X_test_clean |-> X_test_clean,
                         predictions |-> [rf     |-> rf_pred.value,
                                          knn    |-> knn_pred.value,
                                          poly   |-> poly_pred.value,
                                          actual |-> y_test_clean]])

\* the loop of lines 66-118 from age group i on; an exception ends the script
RECURSIVE SimpleLoop(_, _, _, _)
SimpleLoop(i, train, test, done) ==
    IF i > Len(AgeGroupKeys) THEN [groups |-> done, exc |-> "None"]
    ELSE LET g == AgeGroupKeys[i]
             r == SimpleGroup(prepare_features(train).X,
                              prepare_features(train).y_dict[g],
                              prepare_features(test).X,
                              MediumColumn(test, g))
         IN  IF ~IsOk(r) THEN [groups |-> done, exc |-> r.exc]
             ELSE SimpleLoop(i + 1, train, test, Put(done, g, r.value))

\* years_test of line 136: test['Year'].values[:len(actual)]
years_test(test, actual) ==
    SubSeq([i \in DOMAIN test |-> test[i].Year], 1, Len(actual))

\* the loop of lines 127-147 after a completed training loop: the years each
\* age group's ground truth and predictions are plotted against
PlotLoop(test, r) ==
    IF r.exc # "None" THEN <<>>
    ELSE [g \in AgeGroups |->
             years_test(test, r.groups[g].predictions.actual)]

SimpleMain ==
    /\ program = "simple_forecasting"
    /\ IsNone(simple)
    /\ LET filled == FillEstimates(csv)
           train  == TrainSplit(filled)
           test   == TestSplit(filled)
           r      == SimpleLoop(1, train, test, <<>>)
       IN  simple' = Some([data |-> filled, train |-> train, test |-> test,
                           groups |-> r.groups, raised |-> r.exc,
                           years_test |-> PlotLoop(test, r)])
    /\ UNCHANGED <<dashboard, program, csv, sklearn, data, train_data, test_data, models,
                   predictions, evaluation_results, best_models, printed, raised>>

----------------------------------------------------------------------------
Programs == {"population_forecasting_pipeline", "simple_forecasting"}

Init ==
    /\ program \in Programs
    /\ csv \in CsvFiles
    /\ sklearn \in [leaf : RFLeafChoices, trend : PolyTrends]
    /\ data = None
    /\ train_data = None
    /\ test_data = None
    /\ models = <<>>
    /\ predictions = <<>>
    /\ evaluation_results = <<>>
    /\ best_models = <<>>
    /\ printed = <<>>
    /\ raised = "None"
    /\ simple = <<>>
    /\ dashboard = <<>>

Next ==
    \/ load_and_preprocess_data
    \/ train_all_models
    \/ make_predictions
    \/ evaluate_models
    \/ generate_analysis_report
    \/ SimpleMain

Spec == Init /\ [][Next]_vars

----------------------------------------------------------------------------
(* The pipeline object over a file that is rewritten between its calls *)

\* pd.read_csv(self.data_path) reads the file anew at every call of
\* load_and_preprocess_data: two issues of the data in the published pattern,
\* the later one without the first year of the earlier
Issues == {MakeCsv(first, LastYear, {}) : first \in {FirstYear, FirstYear + 1}}

\* the file at data_path is replaced by another issue
FileChanges ==
    /\ IsForecaster
    /\ csv' \in Issues \ {csv}
    /\ UNCHANGED <<dashboard, program, sklearn, data, train_data, test_data, models,
                   predictions, evaluation_results, best_models, printed,
                   raised, simple>>

InitReload ==
    /\ Init
    /\ IsForecaster
    /\ csv \in Issues

NextReload ==
    \/ load_and_preprocess_data
    \/ train_all_models
    \/ make_predictions
    \/ evaluate_models
    \/ generate_analysis_report
    \/ FileChanges

SpecReload == InitReload /\ [][NextReload]_vars

----------------------------------------------------------------------------
(* interactive_population_dashboard.py: load_population_data and            *)
(* filter_data_by_year_range.  The function is pure: its arguments are drawn *)
(* at the start and one action applies it.                                   *)

\* lines 27-54 for one row of the file that has its three age columns
DashboardRow(row) ==
    LET age  == [g \in AgeGroups |-> fillna(row.estimates[g], row.medium[g])]
        pop  == [g \in AgeGroups |-> FDiv(age[g], Float(1000000))]
    IN  [Year      |-> row.Year,
         estimates |-> row.estimates,
         medium    |-> row.medium,
         age       |-> age,
         pop_millions |-> pop,
         total_population_millions |->
             FAdd(FAdd(pop["children_0-14"], pop["working_15-64"]),
                  pop["elderly_65+"]),
         data_type |-> IF row.Year <= 2023 THEN "Historical" ELSE "Projection"]

\* load_population_data: None when read_csv raises (the except of lines
\* 57-59), else the rows with no age column missing after the fill
load_population_data(found) ==
    IF ~found THEN None
    ELSE LET complete(row) ==
                 \A g \in AgeGroups :
                     ~isnan(fillna(row.estimates[g], row.medium[g]))
             df_clean == SelectSeq(csv, complete)
         IN  Some([i \in DOMAIN df_clean |-> DashboardRow(df_clean[i])])

\* the mask of lines 71-72 with the upper end left out
InYearRange_exclusive(row, start_year, end_year) ==
    row.Year >= start_year /\ row.Year < end_year

\* the mask of lines 71-72: (df['Year'] >= start_year) & (df['Year'] <= end_year)
InYearRange(row, start_year, end_year) ==
    row.Year >= start_year /\ row.Year <= end_year

\* filter_data_by_year_range(df, start_year, end_year)
filter_data_by_year_range(df, start_year, end_year) ==
    IF IsNone(df) THEN None
    ELSE Some(SelectSeq(Get(df),
                        LAMBDA row : InYearRange(row, start_year, end_year)))

\* the years a caller may pass: those of the file and one beyond either end
SliderYears == (FirstYear - 1) .. (LastYear + 1)

\* the arguments of the call
DashboardCalls ==
    [df         : {load_population_data(found) : found \in BOOLEAN},
     start_year : SliderYears,
     end_year   : SliderYears,
     returned   : {FALSE},
     filtered_df : {None}]

\* the call: df, start_year and end_year are read, the result is returned
FilterCall ==
    /\ program = "interactive_population_dashboard"
    /\ ~IsNone(dashboard)
    /\ ~Get(dashboard).returned
    /\ LET c == Get(dashboard)
       IN  dashboard' =
               Some([c EXCEPT !.returned = TRUE,
                              !.filtered_df =
                                  filter_data_by_year_range(c.df, c.start_year,
                                                            c.end_year)])
    /\ UNCHANGED <<program, csv, sklearn, data, train_data, test_data, models,
                   predictions, evaluation_results, best_models, printed,
                   raised, simple>>

InitDashboard ==
    /\ program = "interactive_population_dashboard"
    /\ csv \in CsvFiles
    /\ sklearn = [leaf |-> 1, trend |-> 0]
    /\ data = None
    /\ train_data = None
    /\ test_data = None
    /\ models = <<>>
    /\ predictions = <<>>
    /\ evaluation_results = <<>>
    /\ best_models = <<>>
    /\ printed = <<>>
    /\ raised = "None"
    /\ simple = <<>>
    /\ dashboard \in {Some(c) : c \in DashboardCalls}

NextDashboard == FilterCall

SpecDashboard == InitDashboard /\ [][NextDashboard]_vars

----------------------------------------------------------------------------
(* Properties *)

\* the rows of the file up to and after the split, and the years of some rows
HistoricalRows == SelectSeq(csv, LAMBDA row : row.Year <= 2023)
ProjectionRows == SelectSeq(csv, LAMBDA row : row.Year >= 2024)
YearsOf(rows)  == [i \in DOMAIN rows |-> rows[i].Year]

\* the resolved value of an age group in a row of the file
Resolved(row, g) ==
    IF row.estimates[g] # NaNF THEN row.estimates[g] ELSE row.medium[g]

\* the rows at which the resolved value of g is present
Present(rows, g) == SelectSeq(rows, LAMBDA row : Resolved(row, g) # NaNF)

\* a DataFrame whose estimates column holds the resolved value of every
\* age group in every row of the file
IsResolutionOfCsv(df) ==
    /\ Len(df) = Len(csv)
    /\ \A i \in DOMAIN df : \A g \in AgeGroups :
          /\ df[i].Year = csv[i].Year
          /\ df[i].estimates[g] = Resolved(csv[i], g)

\* C1: after loading, in both pipelines, the estimates column holds for every
\* age group and year the observed estimate when the file has one and the
\* medium-variant value otherwise.
C1_ValueResolution ==
    /\ ~IsNone(data) => IsResolutionOfCsv(Get(data))
    /\ ~IsNone(simple) => IsResolutionOfCsv(Get(simple).data)

\* a loaded file with a cell where estimate and medium value are both
\* present and differ, and a cell where only the medium value is present
C1_Witness ==
    /\ ~IsNone(data)
    /\ \E i \in DOMAIN csv : \E g \in AgeGroups :
          /\ csv[i].estimates[g] # NaNF
          /\ csv[i].medium[g] # NaNF
          /\ csv[i].estimates[g] # csv[i].medium[g]
    /\ \E i \in DOMAIN csv : \E g \in AgeGroups :
          /\ csv[i].estimates[g] = NaNF
          /\ csv[i].medium[g] # NaNF

\* the two sets split df at the boundary: only years <= 2023 in the first,
\* only years >= 2024 in the second, no row in both, every row in one
IsPartition(df, train, test) ==
    /\ \A i \in DOMAIN train : train[i].Year <= 2023
    /\ \A i \in DOMAIN test : test[i].Year >= 2024
    /\ Range(train) \cap Range(test) = {}
    /\ Range(train) \cup Range(test) = Range(df)
    /\ Len(train) + Len(test) = Len(df)

\* C2: after the split of either pipeline the training set holds only rows
\* with Year <= 2023, the test set only rows with Year >= 2024, no row is in
\* both and every loaded row is in one of them.
C2_Partition ==
    /\ ~IsNone(data) => IsPartition(Get(data), Get(train_data), Get(test_data))
    /\ ~IsNone(simple) =>
          IsPartition(Get(simple).data, Get(simple).train, Get(simple).test)

\* a loaded file with rows on both sides of the boundary, 2023 and 2024 among
\* them
C2_Witness ==
    /\ ~IsNone(data)
    /\ \E i \in DOMAIN Get(train_data) : Get(train_data)[i].Year = 2023
    /\ \E i \in DOMAIN Get(test_data) : Get(test_data)[i].Year = 2024

\* the training years and targets of age group g: the historical rows at
\* which g's own resolved value is present
OwnYears(g)   == YearsOf(Present(HistoricalRows, g))
OwnTargets(g) ==
    LET rows == Present(HistoricalRows, g)
    IN  [i \in DOMAIN rows |-> Resolved(rows[i], g)]

\* an estimator fitted on exactly g's own years
FittedOnOwnYears(X, y, g) == X = OwnYears(g) /\ y = OwnTargets(g)

\* C3: every model of every variant is fitted on exactly the historical years
\* at which its own age group's resolved value is present, whatever the
\* other age groups miss.
C3_IndependentMasking ==
    /\ \A m \in DOMAIN models : \A g \in AgeGroups :
          IF m = "knn"
          THEN LET knn == models[m][g]
               IN  /\ knn.model.y = OwnTargets(g)
                   /\ knn.model.Z =
                        StandardScaler_transform(knn.scaler, OwnYears(g)).value
                   /\ knn.scaler = StandardScaler_fit(OwnYears(g)).value
          ELSE FittedOnOwnYears(models[m][g].X, models[m][g].y, g)
    /\ ~IsNone(simple) =>
          \A g \in DOMAIN Get(simple).groups :
              LET ms == Get(simple).groups[g].models
              IN  /\ FittedOnOwnYears(ms.rf.X, ms.rf.y, g)
                  /\ FittedOnOwnYears(ms.poly.X, ms.poly.y, g)
                  /\ ms.knn.y = OwnTargets(g)
                  /\ ms.knn.Z =
                        StandardScaler_transform(ms.scaler, OwnYears(g)).value

\* all three variants trained, two age groups on different sample counts
C3_Witness ==
    /\ DOMAIN models = Range(ModelNames)
    /\ \E g, h \in AgeGroups :
          /\ Len(models["knn"][g].model.y) # Len(models["knn"][h].model.y)
          /\ Len(models["random_forest"][g].X) # Len(models["random_forest"][h].X)
          /\ Len(models["polynomial"][g].X) # Len(models["polynomial"][h].X)

\* the sample counts of an age group: training years, projection years with a
\* resolved value, projection years with a medium-variant value
HistCount(g)   == Len(OwnYears(g))
TruthRows(g)   == Present(ProjectionRows, g)
MediumRows(g)  == SelectSeq(ProjectionRows, LAMBDA row : row.medium[g] # NaNF)

\* a call of train_all_models on loaded data in which some age group has
\* historical samples, and a call of evaluate_models on loaded data
TrainStep ==
    /\ train_all_models
    /\ ~IsNone(train_data)
    /\ \E g \in AgeGroups : HistCount(g) > 0
EvalStep  == evaluate_models /\ ~IsNone(test_data)

\* C4: a failing fit or prediction of one (age group, variant) pair is not
\* raised out of the run: the call returns and every pair that has data of
\* its own is still fitted (and, in the script, predicted and stored).
C4_PartialFailure ==
    [][/\ TrainStep =>
            /\ raised' = "None"
            /\ \A g \in AgeGroups : HistCount(g) > 0 =>
                  \A m \in Range(ModelNames) :
                      m \in DOMAIN models' /\ g \in DOMAIN models'[m]
       /\ (SimpleMain /\ \E g \in AgeGroups : HistCount(g) > 0) =>
            /\ Get(simple').raised = "None"
            /\ \A g \in AgeGroups :
                  (HistCount(g) >= KNeighbors /\ Len(MediumRows(g)) > 0) =>
                      g \in DOMAIN Get(simple').groups]_vars

\* what variant m, as fitted for age group g, predicts for one year
PredictionFor(m, g, year) == PredictOne(m, models[m][g], <<year>>).value[1]

\* the three metrics over the pairs (truth[i], pred[i])
MetricsOf(truth, pred) ==
    [RMSE |-> FSqrt(mean_squared_error(truth, pred).value),
     MAE  |-> mean_absolute_error(truth, pred).value,
     R2   |-> r2_score(truth, pred).value]

\* C5: the metrics of every (variant, age group) are those of exactly the
\* projection years at which the age group's ground truth is present, each
\* pairing the prediction for a year with the ground truth of that year; the
\* script keeps exactly those years, ground-truth values and predictions.
C5_EvaluatorAlignment ==
    /\ \A m \in DOMAIN evaluation_results : \A g \in AgeGroups :
          LET rows  == TruthRows(g)
              truth == <<>> \o [i \in DOMAIN rows |-> Resolved(rows[i], g)]
              pred  == <<>> \o [i \in DOMAIN rows |->
                                   PredictionFor(m, g, rows[i].Year)]
          IN  evaluation_results[m][g] = MetricsOf(truth, pred)
    /\ ~IsNone(simple) =>
          \A g \in DOMAIN Get(simple).groups :
              LET rows == MediumRows(g)
                  r    == Get(simple).groups[g]
              IN  /\ r.X_test_clean = YearsOf(rows)
                  /\ DOMAIN r.predictions.actual = DOMAIN rows
                  /\ DOMAIN r.predictions.rf = DOMAIN rows
                  /\ DOMAIN r.predictions.knn = DOMAIN rows
                  /\ DOMAIN r.predictions.poly = DOMAIN rows
                  /\ \A i \in DOMAIN rows :
                        /\ r.predictions.actual[i] = rows[i].medium[g]
                        /\ r.predictions.rf[i] =
                             RandomForest_predict(r.models.rf,
                                                  <<rows[i].Year>>).value[1]
                        /\ r.predictions.knn[i] =
                             KNeighbors_predict(r.models.knn,
                                 StandardScaler_transform(r.models.scaler,
                                     <<rows[i].Year>>).value).value[1]
                        /\ r.predictions.poly[i] =
                             Polynomial_predict(r.models.poly,
                                                <<rows[i].Year>>).value[1]

\* metrics reported for an age group whose ground truth is absent at the
\* first projection year and present at a later one, under predictions that
\* differ between the two years
C5_Witness ==
    /\ DOMAIN evaluation_results = Range(ModelNames)
    /\ \E g \in AgeGroups :
          /\ Len(TruthRows(g)) < Len(ProjectionRows)
          /\ Resolved(ProjectionRows[1], g) = NaNF
          /\ \E m \in Range(ModelNames) :
                predictions[m][g][1] # predictions[m][g][2]

\* the place of a variant in the fixed order
OrderOf(m) == CHOOSE i \in DOMAIN ModelNames : ModelNames[i] = m

\* C6: every best model the report prints for an age group is an evaluated
\* variant whose R2 no other variant of that age group exceeds, and is the
\* earliest of the variants with that R2 in the order random_forest, knn,
\* polynomial.
C6_BestModel ==
    \A k \in DOMAIN printed :
        LET g  == printed[k][1]
            m  == printed[k][2]
            r2 == printed[k][3]
        IN  /\ m \in DOMAIN evaluation_results
            /\ r2 = evaluation_results[m][g].R2
            /\ \A n \in DOMAIN evaluation_results :
                  /\ ~FGreater(evaluation_results[n][g].R2, r2)
                  /\ evaluation_results[n][g].R2 = r2 => OrderOf(m) <= OrderOf(n)

\* a report that prints, for one age group, a best model that a later variant
\* equals in R2, and for another a best model that beats an earlier variant
C6_Witness ==
    /\ \E k \in DOMAIN printed :
          \E n \in DOMAIN evaluation_results :
              /\ n # printed[k][2]
              /\ evaluation_results[n][printed[k][1]].R2 = printed[k][3]
    /\ \E k \in DOMAIN printed :
          \E n \in DOMAIN evaluation_results :
              /\ OrderOf(n) < OrderOf(printed[k][2])
              /\ FGreater(printed[k][3], evaluation_results[n][printed[k][1]].R2)

\* C7: make_predictions on loaded data with no model fitted fails with
\* NotFittedError.
C7_PredictBeforeFit ==
    [][(make_predictions /\ ~IsNone(test_data) /\ models = <<>>) =>
          raised' = "NotFittedError"]_vars

\* C8: fitting raises InsufficientDataError exactly when an (age group,
\* variant) pair has fewer than 2 historical samples of its own.
C8_InsufficientData ==
    [][/\ (train_all_models /\ ~IsNone(train_data)) =>
            (raised' = "InsufficientDataError"
                <=> \E g \in AgeGroups : HistCount(g) < 2)
       /\ SimpleMain =>
            (Get(simple').raised = "InsufficientDataError"
                <=> \E g \in AgeGroups : HistCount(g) < 2)]_vars

\* predictions stored for every variant and age group
AllPredicted ==
    /\ DOMAIN predictions = Range(ModelNames)
    /\ \A m \in DOMAIN predictions : DOMAIN predictions[m] = AgeGroups

\* C9: evaluating complete predictions reports the metrics of exactly the
\* pairs that have at least one aligned (prediction, ground truth) pair; a
\* pair with none is left out and the others are still reported.
C9_EmptyComparison ==
    [][(EvalStep /\ AllPredicted) =>
          \A m \in Range(ModelNames) :
              /\ m \in DOMAIN evaluation_results'
              /\ \A g \in AgeGroups :
                    Len(TruthRows(g)) > 0 <=> g \in DOMAIN evaluation_results'[m]]_vars

\* a row of the file in which an age group has neither value
AbsentBoth == \E i \in DOMAIN csv : \E g \in AgeGroups : Resolved(csv[i], g) = NaNF

\* C10: loading a file in which some age group has neither an estimate nor a
\* medium-variant value in some year raises DataError to the caller.
C10_AbsentBothError ==
    [][/\ (load_and_preprocess_data /\ AbsentBoth) => raised' = "DataError"
       /\ (SimpleMain /\ AbsentBoth) => Get(simple').raised = "DataError"]_vars

\* the years of the projection set, in the order of the file
ProjectionYears == YearsOf(ProjectionRows)

\* C11: after a completed run every variant holds, for every age group, one
\* prediction per year of the projection set, in the order of the years,
\* whether or not the age group's ground truth is present at the year.
C11_ProjectionCoverage ==
    [][/\ (/\ make_predictions
           /\ DOMAIN models = Range(ModelNames)
           /\ raised' = "None") =>
            \A m \in Range(ModelNames) : \A g \in AgeGroups :
                /\ m \in DOMAIN predictions'
                /\ g \in DOMAIN predictions'[m]
                /\ DOMAIN predictions'[m][g] = DOMAIN ProjectionYears
                /\ \A i \in DOMAIN ProjectionYears :
                      predictions'[m][g][i] =
                          PredictionFor(m, g, ProjectionYears[i])
       /\ (SimpleMain /\ Get(simple').raised = "None") =>
            \A g \in AgeGroups :
                /\ g \in DOMAIN Get(simple').groups
                /\ Get(simple').groups[g].X_test_clean = ProjectionYears
                /\ DOMAIN Get(simple').groups[g].predictions.rf =
                       DOMAIN ProjectionYears
                /\ DOMAIN Get(simple').groups[g].predictions.knn =
                       DOMAIN ProjectionYears
                /\ DOMAIN Get(simple').groups[g].predictions.poly =
                       DOMAIN ProjectionYears]_vars

\* what a run that starts from the file alone fits: the three train_* methods
\* on the history of the file
FileHistory == prepare_features(TrainSplit(FillEstimates(csv)))
FileModels ==
    LET f == FileHistory
    IN  [m \in Range(ModelNames) |->
            CASE m = "random_forest" -> train_random_forest(f.X, f.y_dict)
              [] m = "knn" -> train_knn(f.X, f.y_dict)
              [] m = "polynomial" -> train_polynomial_regression(f.X, f.y_dict)]

UnitFit(m, g) ==
    LET f == prepare_features(Get(train_data))
        c == CleanTraining(f.X, f.y_dict[g])
    IN  CASE m = "random_forest" -> RandomForest_fit(c.X, c.y)
          [] m = "knn" -> StandardScaler_fit(c.X)
          [] m = "polynomial" -> Polynomial_fit(c.X, c.y)

\* the prediction of the fitted variant m for age group g taken alone
UnitPredict(m, g) ==
    PredictOne(m, models[m][g], prepare_features(Get(test_data)).X)

\* C13: what the run leaves for an (age group, variant) unit is what the unit
\* yields taken alone, whatever the other units do and wherever the unit
\* stands in the order of execution: a unit is fitted exactly when its own
\* fit succeeds, and its prediction is stored exactly when its own prediction
\* succeeds, with the value the unit alone computes.
C13_OrderInsensitive ==
    [][/\ (train_all_models /\ ~IsNone(train_data)) =>
            \A m \in Range(ModelNames) : \A g \in AgeGroups :
                IsOk(UnitFit(m, g)) <=>
                    (m \in DOMAIN models' /\ g \in DOMAIN models'[m])
       /\ (/\ make_predictions
           /\ ~IsNone(test_data)
           /\ DOMAIN models = Range(ModelNames)) =>
            \A m \in Range(ModelNames) : \A g \in AgeGroups :
                IsOk(UnitPredict(m, g)) <=>
                    /\ m \in DOMAIN predictions'
                    /\ g \in DOMAIN predictions'[m]
                    /\ predictions'[m][g] = UnitPredict(m, g).value]_vars

\* the boundary lies outside the years of the file: one side of the split is
\* empty
BoundaryOutside == HistoricalRows = <<>> \/ ProjectionRows = <<>>

\* C14: on a file with no year up to 2023 or no year from 2024 on, the run
\* fails in the split: load_and_preprocess_data raises, and no model is
\* fitted and no prediction stored afterwards; the script ends with an
\* error and nothing fitted.
C14_InvalidBoundary ==
    [][/\ (load_and_preprocess_data /\ BoundaryOutside) => raised' # "None"
       /\ (train_all_models /\ BoundaryOutside) => models' = <<>>
       /\ (make_predictions /\ BoundaryOutside) => predictions' = <<>>
       /\ (SimpleMain /\ BoundaryOutside) =>
            /\ Get(simple').raised # "None"
            /\ Get(simple').groups = <<>>]_vars

\* the neighbours kneighbors takes for the scaled query z and their weights
NeighboursOf(knn, z) ==
    KNearest(Distances(knn, z), DOMAIN knn.Z, knn.n_neighbors)
WeightsOf(knn, z) ==
    KNeighbors_weights(knn.weights, Distances(knn, z), NeighboursOf(knn, z))

\* the prediction for z averages 5 neighbours, a nearer one weighing more
NearerWeighsMore(knn, z) ==
    /\ Cardinality(NeighboursOf(knn, z)) = KNeighbors
    /\ \A i, j \in NeighboursOf(knn, z) :
          Distances(knn, z)[i][1] < Distances(knn, z)[j][1] =>
              WeightsOf(knn, z)[i][1] > WeightsOf(knn, z)[j][1]

\* C15: in both pipelines every stored prediction of the instance-based
\* variant averages the 5 nearest training years with weights that decrease
\* with the distance: a nearer training year weighs more than a farther one.
C15_DistanceWeighting ==
    /\ ("knn" \in DOMAIN predictions /\ ~IsNone(test_data)) =>
          \A g \in DOMAIN predictions["knn"] :
              LET knn == models["knn"][g]
                  Z   == StandardScaler_transform(knn.scaler,
                             prepare_features(Get(test_data)).X).value
              IN  \A i \in DOMAIN Z : NearerWeighsMore(knn.model, Z[i])
    /\ ~IsNone(simple) =>
          \A g \in DOMAIN Get(simple).groups :
              LET r == Get(simple).groups[g]
                  Z == StandardScaler_transform(r.models.scaler,
                                                r.X_test_clean).value
              IN  \A i \in DOMAIN Z : NearerWeighsMore(r.models.knn, Z[i])

\* the least and the greatest of the floats of the set S
FMin(S) == CHOOSE v \in S : \A u \in S : ~FGreater(v, u)
FMax(S) == CHOOSE v \in S : \A u \in S : ~FGreater(u, v)

\* the prediction p of knn for the scaled query z rests on the 5 latest
\* training years only and lies within the range of their values
RestsOnLatest(knn, z, p) ==
    LET n      == Len(knn.y)
        latest == (n - KNeighbors + 1) .. n
        values == {knn.y[i] : i \in latest}
    IN  /\ NeighboursOf(knn, z) = latest
        /\ ~FGreater(FMin(values), p)
        /\ ~FGreater(p, FMax(values))

\* C16: every stored prediction of the instance-based variant for a
\* projection year (a year after all training years) is an average over the
\* 5 latest training years of the age group alone and lies between the
\* least and the greatest of their 5 values.
C16_NoExtrapolation ==
    /\ ("knn" \in DOMAIN predictions /\ ~IsNone(test_data)) =>
          \A g \in DOMAIN predictions["knn"] :
              LET knn == models["knn"][g]
                  Z   == StandardScaler_transform(knn.scaler,
                             prepare_features(Get(test_data)).X).value
              IN  \A i \in DOMAIN Z :
                      RestsOnLatest(knn.model, Z[i], predictions["knn"][g][i])
    /\ ~IsNone(simple) =>
          \A g \in DOMAIN Get(simple).groups :
              LET r == Get(simple).groups[g]
                  Z == StandardScaler_transform(r.models.scaler,
                                                r.X_test_clean).value
              IN  \A i \in DOMAIN Z :
                      RestsOnLatest(r.models.knn, Z[i], r.predictions.knn[i])

\* a prediction of the instance-based variant, two years after the boundary,
\* for an age group with more than 5 training years of differing values
C16_Witness ==
    /\ "knn" \in DOMAIN predictions
    /\ \E g \in DOMAIN predictions["knn"] :
          /\ Len(models["knn"][g].model.y) > KNeighbors
          /\ models["knn"][g].model.y[1] # models["knn"][g].model.y[2]
          /\ Len(predictions["knn"][g]) >= 2

\* the test rows a run holds: test_data of the pipeline, test of the script
TestRows ==
    IF ~IsNone(test_data) THEN Get(test_data)
    ELSE IF ~IsNone(simple) THEN Get(simple).test
    ELSE <<>>

\* the ground truth the two pipelines take for age group g over the test rows
TruthOfPipeline(g) == prepare_features(TestRows).y_dict[g]
TruthOfScript(g)   == MediumColumn(TestRows, g)

\* at the i-th projection year of the file the estimate of g is absent or
\* equals the medium-variant value
EstimateAbsentOrEqual(g, i) ==
    \/ ProjectionRows[i].estimates[g] = NaNF
    \/ ProjectionRows[i].estimates[g] = ProjectionRows[i].medium[g]

\* the two pipelines keep the i-th projection year of g alike
KeptAlike(g, i) ==
    NotNaNMask(TruthOfPipeline(g))[i] = NotNaNMask(TruthOfScript(g))[i]

LoadedHistory == prepare_features(Get(train_data))
LoadedModels ==
    [m \in Range(ModelNames) |->
        CASE m = "random_forest" ->
                train_random_forest(LoadedHistory.X, LoadedHistory.y_dict)
          [] m = "knn" -> train_knn(LoadedHistory.X, LoadedHistory.y_dict)
          [] m = "polynomial" ->
                train_polynomial_regression(LoadedHistory.X,
                                            LoadedHistory.y_dict)]

\* C18: whatever calls came before, every model make_predictions predicts
\* with was fitted on the train_data that is loaded when it is called.
C18_ModelLifecycle ==
    [][(make_predictions /\ ~IsNone(train_data)) =>
          \A m \in DOMAIN models :
              /\ IsOk(LoadedModels[m])
              /\ models[m] = LoadedModels[m].value]_vars

\* the DataFrame a run holds after the resolution: data of the pipeline, data
\* of the script
ResolvedFrame ==
    IF ~IsNone(data) THEN Get(data)
    ELSE IF ~IsNone(simple) THEN Get(simple).data
    ELSE <<>>

\* C19: the resolution leaves its sources as they were: after it the
\* medium-variant column of every year is that of the file, an estimate
\* that was present is unchanged, and a year without an estimate can still
\* be told from a year with one.
C19_PureResolution ==
    \A i \in DOMAIN ResolvedFrame : \A g \in AgeGroups :
        /\ ResolvedFrame[i].medium[g] = csv[i].medium[g]
        /\ csv[i].estimates[g] # NaNF =>
              ResolvedFrame[i].estimates[g] = csv[i].estimates[g]
        /\ ResolvedFrame[i].estimates[g] = NaNF <=> csv[i].estimates[g] = NaNF

\* C20: after any call of evaluate_models, evaluation_results holds an entry
\* with the three metrics for exactly the (variant, age group) pairs for which
\* a prediction is stored (none when nothing was predicted).
C20_ReportComplete ==
    [][evaluate_models =>
          \A m \in Range(ModelNames) : \A g \in AgeGroups :
              (m \in DOMAIN predictions /\ g \in DOMAIN predictions[m]) <=>
                  /\ m \in DOMAIN evaluation_results'
                  /\ g \in DOMAIN evaluation_results'[m]
                  /\ DOMAIN evaluation_results'[m][g] = {"RMSE", "MAE", "R2"}]_vars

\* C21: whenever generate_analysis_report runs on loaded data, the best model
\* it selects for every age group is one of the evaluated variants and never
\* None, also before evaluate_models has run and when every R2 of an age group
\* is NaN.
C21_BestDefined ==
    [][(generate_analysis_report /\ ~IsNone(train_data)) =>
          /\ ~IsNone(best_models')
          /\ \A g \in AgeGroups :
                /\ Get(best_models')[g][1] # "None"
                /\ Get(best_models')[g][1] \in DOMAIN evaluation_results]_vars

\* C22: in a completed run of simple_forecasting.main, for every age group the
\* years its retained ground truth and predictions are plotted against are
\* exactly the projection years at which its ground truth is present, in the
\* order of the years.
C22_PlotYears ==
    [][(SimpleMain /\ Get(simple').raised = "None") =>
          \A g \in AgeGroups :
              Get(simple').years_test[g] =
                  YearsOf(SelectSeq(ProjectionRows,
                                    LAMBDA row : row.medium[g] # NaNF))]_vars

\* the positions of the rows of df whose Year lies in start_year .. end_year
RowsInRange(df, start_year, end_year) ==
    {i \in DOMAIN df : start_year <= df[i].Year /\ df[i].Year <= end_year}

\* C23: filter_data_by_year_range(df, start_year, end_year) returns None when
\* df is None; otherwise it returns exactly the rows of df with
\* start_year <= Year <= end_year, in their order in df, which is none when
\* start_year > end_year; and it leaves df unchanged.
C23_YearFilter ==
    [][FilterCall =>
          LET c   == Get(dashboard)
              out == Get(dashboard').filtered_df
          IN  /\ Get(dashboard').df = c.df
              /\ IsNone(c.df) => IsNone(out)
              /\ ~IsNone(c.df) =>
                    LET df  == Get(c.df)
                        idx == RowsInRange(df, c.start_year, c.end_year)
                    IN  /\ ~IsNone(out)
                        /\ Len(Get(out)) = Cardinality(idx)
                        /\ \A i \in idx :
                              Get(out)[Cardinality({j \in idx : j <= i})] = df[i]
                        /\ c.start_year > c.end_year => Get(out) = <<>>]_vars

\* a call returned on a loaded frame that has a row before start_year, a row
\* after end_year and two rows within, and the result holds the two
C23_Witness ==
    /\ ~IsNone(dashboard)
    /\ Get(dashboard).returned
    /\ ~IsNone(Get(dashboard).df)
    /\ LET c  == Get(dashboard)
           df == Get(c.df)
       IN  /\ \E i \in DOMAIN df : df[i].Year < c.start_year
           /\ \E i \in DOMAIN df : df[i].Year > c.end_year
           /\ Cardinality(RowsInRange(df, c.start_year, c.end_year)) = 2
           /\ Len(Get(c.filtered_df)) = 2

====
